---- MODULE Spec2Model ----
(***************************************************************************)
(* Model of the kata browser front end: the hash router (state.js, App),   *)
(* the Sidebar's selectKata, the Workspace component (landing.jsx lines    *)
(* 117-282) with its kata resource, code buffer, run request and split     *)
(* pane, and the CodePanel / OutputPanel callbacks.                        *)
(*                                                                         *)
(* Strings that the code parses (the address fragment, kata ids) are       *)
(* sequences of one-character strings; strings the code only stores and    *)
(* compares (code texts, messages) are TLA+ strings.  Every step of the    *)
(* model is one event-loop task: a DOM event handler, or the continuation  *)
(* of an awaited promise, run to completion together with the synchronous  *)
(* reactive updates it triggers.                                           *)
(***************************************************************************)
EXTENDS Integers, Sequences, FiniteSets, Bags, TLC

\* ------------------------------------------------------------------ bounds
\* detail fetches of one Workspace that may be in flight together
MaxFetches == 2
\* run requests in flight (the code allows one; the cap only bounds mutants)
MaxRunReqs == 2

\* ------------------------------------------------------------- characters
Null == <<>>

StartsWith(s, p) == Len(s) >= Len(p) /\ SubSeq(s, 1, Len(p)) = p

\* "#/katas/" as matched by /^#\/katas\/(.+)$/
KatasSlash == <<"#", "/", "k", "a", "t", "a", "s", "/">>

\* "#/katas" as tested by route().startsWith("#/katas")
KatasRoute == <<"#", "/", "k", "a", "t", "a", "s">>

\* "#/"
RootRoute == <<"#", "/">>

KataIds == {<<"a">>, <<"b">>}

\* an id the server has no lesson for, as a hand-typed address may carry
UnlistedId == <<"z">>

\* the address fragments a session visits: the landing page, the kata browser
\* without a lesson (the landing page's link), and one fragment per lesson
Fragments == {RootRoute, KatasRoute} \cup {KatasSlash \o k : k \in KataIds}

\* variant: the pattern without the slash after "katas"
getKataIdFromHash_NoSlash(h) ==
    IF StartsWith(h, KatasRoute) /\ Len(h) > Len(KatasRoute)
    THEN SubSeq(h, Len(KatasRoute) + 1, Len(h))
    ELSE Null

getKataIdFromHash(h) ==
    IF StartsWith(h, KatasSlash) /\ Len(h) > Len(KatasSlash)
    THEN SubSeq(h, Len(KatasSlash) + 1, Len(h))
    ELSE Null

\* window.location.hash || "#/"
RouteOf(h) == IF h = <<>> THEN RootRoute ELSE h

\* <Match when={route().startsWith("#/katas")}> : KataBrowser (Sidebar and
\* Workspace) is mounted; every other route renders Landing
IsKataRoute(r) == ~(r = RootRoute \/ r = <<>>) /\ StartsWith(r, KatasRoute)

\* ------------------------------------------------------- server responses
\* GET /api/katas/<id>
KataDb(id) ==
    [id |-> id,
     broken_code  |-> IF id = <<"a">> THEN "broken_a" ELSE "broken_b",
     correct_code |-> IF id = <<"a">> THEN "correct_a" ELSE "correct_b"]

\* the value of an unresolved resource (undefined)
Undefined == [id |-> Null, broken_code |-> "", correct_code |-> ""]

\* POST /api/playground/run, status ok
RunResults ==
    {[stdout |-> "6", stderr |-> "", success |-> TRUE, execution_time_ms |-> 12],
     [stdout |-> "", stderr |-> "error[E0382]", success |-> FALSE, execution_time_ms |-> 3]}

\* messages of the errors runCode throws (non-ok status, network failure)
RunErrors == {"Failed to run code: 500"}

NoResult == [isNull |-> TRUE]

\* no settlement of runCode is on display; no drag move has happened
NoDelivery == [settled |-> FALSE]

NoFraction == <<0, 0>>

\* texts typed into the textarea
Texts == {"fn main(){}", "broken_a"}

NoView == "null"

\* maximized: null | 'code' | 'output'
NoPanel == "null"

Panels == {"code", "output"}

\* GET /api/katas: the phases in order, each with the ids of its lessons
KataList ==
    <<[phase |-> 0, katas |-> {<<"a">>}],
      [phase |-> 1, katas |-> {<<"b">>}],
      [phase |-> 2, katas |-> {}]>>

Phases == {KataList[i].phase : i \in DOMAIN KataList}

\* the id is in no phase of the list
NoPhase == -1

\* the first phase whose lessons include the id:  for (...) { if (some) {...; break;} }
PhaseOf(id) ==
    LET hits == {i \in DOMAIN KataList : id \in KataList[i].katas}
    IN IF hits = {} THEN NoPhase
       ELSE KataList[CHOOSE i \in hits : \A j \in hits : i <= j].phase

\* new Set([0])
InitialOpenPhases == {0}

\* localStorage.getItem("theme") when nothing is stored
NoStored == "null"

Themes == {"dark", "light"}

VARIABLES
    hash,               \* window.location.hash
    hashPending,        \* a hashchange event is queued and not yet delivered
    currentKataId,      \* state.js signal
    route,              \* App's route signal
    kata,               \* the resource's value signal
    kataError,          \* the resource's error signal is set
    fetches,            \* the bag of fetchKata promises not yet settled, each
                        \*   [key, isPr]: the id it fetches, and whether it is the
                        \*   resource's current promise (pr === p)
    frozen,             \* the Workspace's reactive graph stopped on an uncaught error
    btnShown,           \* CodePanel's <Show when={props.kata}> is rendered
    code,
    result,
    running,
    activeView,
    showExplanation,
    showInterpretation,
    prevKataId,
    runReqs,            \* runCode promises not yet settled: [code, stale]
    maximized,
    splitRatio,         \* a rational <<numerator, denominator>> in lowest terms
    isDragging,
    bodyStyled,         \* document.body carries the col-resize cursor and user-select: none
    docListeners,       \* how many mousemove / mouseup listeners of Workspaces the
                        \*   document has registered
    tmHist,             \* toggleMaximize applied as a function: the values it went through
    tmCalls,            \*   and the panels it was called with
    threw,              \* the last step ended in an uncaught exception
    codeOrigin,         \* what produced the code buffer last, with its argument
    resultStale,        \* the stored result is of a run begun before the last load or reset
    delivered,          \* what runCode settled with, while its result is stored
    lastFraction,       \* the pointer fraction of the last drag move, before clamping
    kataList,           \* the Sidebar's list resource: "none" (no Sidebar), "pending",
                        \*   "ready" or "errored"
    openPhases,         \* the Sidebar's openPhases signal
    listFetched,        \* fetchKatas has been called since the page was loaded
    sidebarExpanded,    \* state.js signal
    theme,              \* state.js signal
    storedTheme,        \* localStorage item "theme"
    prefersDark,        \* matchMedia("(prefers-color-scheme: dark)").matches
    darkClass,          \* document.documentElement carries the class "dark"
    themeToggles        \* calls of toggleTheme since the page was loaded

navVars == <<hash, hashPending, currentKataId, route>>
resVars == <<kata, kataError, fetches, frozen, btnShown>>
dataVars == <<code, result, running, activeView, showExplanation, showInterpretation,
              prevKataId, runReqs, codeOrigin, resultStale>>
layoutVars == <<maximized, splitRatio, isDragging>>
wsVars == <<dataVars, layoutVars>>
tmVars == <<tmHist, tmCalls>>
ghostVars == <<delivered, lastFraction>>
sideVars == <<kataList, openPhases, listFetched, sidebarExpanded>>
themeVars == <<theme, storedTheme, prefersDark, darkClass, themeToggles>>
vars == <<navVars, resVars, wsVars, bodyStyled, docListeners, tmVars, threw, ghostVars,
          sideVars, themeVars>>

Mounted == IsKataRoute(route)

\* ------------------------------------------------------------ kata resource
\* createResource(currentKataId, fetcher) of solid-js.  A change of the source
\* calls load(): a null source settles the resource with the value it has and
\* forgets the current promise; any other source calls the fetcher and makes
\* its promise the current one.  Nothing cancels the promises issued before.
CanFetch == BagCardinality(fetches) < MaxFetches

Promise(id, isPr) == [key |-> id, isPr |-> isPr]

\* pr = null: no pending promise is the resource's current one
PrIsNull == \A f \in BagToSet(fetches) : ~f.isPr

\* the pending promises once pr is overwritten: none of them is pr any more
Superseded(fs) ==
    LET keys == {f.key : f \in BagToSet(fs)}
        count(k) == CopiesIn(Promise(k, TRUE), fs) + CopiesIn(Promise(k, FALSE), fs)
    IN [f \in {Promise(k, FALSE) : k \in keys} |-> count(f.key)]

\* variant: a load aborts the fetches issued before it
ResourceLoad_Cancel(id) ==
    IF id = Null
    THEN /\ fetches' = EmptyBag
         /\ kataError' = FALSE
         /\ UNCHANGED <<kata, frozen, btnShown>>
    ELSE /\ fetches' = SetToBag({Promise(id, TRUE)})
         /\ UNCHANGED <<kata, kataError, frozen, btnShown>>

ResourceLoad(id) ==
    IF id = Null
    THEN /\ fetches' = Superseded(fetches)
         /\ kataError' = FALSE
         /\ UNCHANGED <<kata, frozen, btnShown>>
    ELSE /\ fetches' = Superseded(fetches) (+) SetToBag({Promise(id, TRUE)})
         /\ UNCHANGED <<kata, kataError, frozen, btnShown>>

\* variant: every delivery of an id reloads the resource, changed or not
SourceChanged_Always(id) == ResourceLoad(id)

\* setCurrentKataId(id) as seen by a mounted Workspace: a signal notifies its
\* observers only when the value changes
SourceChanged(id) ==
    IF id = currentKataId THEN UNCHANGED resVars ELSE ResourceLoad(id)

\* whether the step issues a fetch (guarded by CanFetch to bound the model)
Fetches(wasMounted, isMounted, id) ==
    /\ isMounted
    /\ id # Null
    /\ ~wasMounted \/ id # currentKataId

\* kata() rethrows the fetch error once no promise is pending
KataThrows == kataError /\ PrIsNull

\* ---------------------------------------------------- Workspace lifecycle
\* Workspace(): the signals' initial values and the resource's first load
NewWorkspace(id) ==
    [code |-> "", result |-> NoResult, running |-> FALSE, activeView |-> "broken",
     showExplanation |-> FALSE, showInterpretation |-> FALSE, prevKataId |-> Null,
     maximized |-> NoPanel, splitRatio |-> <<1, 2>>, isDragging |-> FALSE,
     kata |-> Undefined, kataError |-> FALSE,
     fetches |-> IF id = Null THEN EmptyBag ELSE SetToBag({Promise(id, TRUE)})]

\* no Workspace has a listener on the document
NoListeners == [mousemove |-> 0, mouseup |-> 0]

\* document.addEventListener("mousemove", onMouseMove) and ("mouseup", onMouseUp)
addEventListeners(l) == [mousemove |-> l.mousemove + 1, mouseup |-> l.mouseup + 1]

\* document.removeEventListener of the same two functions
removeEventListeners(l) == [mousemove |-> l.mousemove - 1, mouseup |-> l.mouseup - 1]

\* the signals, the resource and the locals a Workspace starts with
WorkspaceSignals(id) ==
    LET w == NewWorkspace(id)
    IN /\ code' = w.code
       /\ result' = w.result
       /\ running' = w.running
       /\ activeView' = w.activeView
       /\ showExplanation' = w.showExplanation
       /\ showInterpretation' = w.showInterpretation
       /\ prevKataId' = w.prevKataId
       /\ maximized' = w.maximized
       /\ splitRatio' = w.splitRatio
       /\ isDragging' = w.isDragging
       /\ kata' = w.kata
       /\ kataError' = w.kataError
       /\ fetches' = w.fetches
       /\ runReqs' = <<>>
       /\ frozen' = FALSE
       /\ btnShown' = FALSE
       /\ codeOrigin' = <<"init">>
       /\ resultStale' = FALSE
       /\ delivered' = NoDelivery
       /\ lastFraction' = NoFraction

\* Workspace(): the body of the component, which also registers the two
\* listeners on the document
WorkspaceInit(id) ==
    /\ WorkspaceSignals(id)
    /\ docListeners' = addEventListeners(docListeners)

\* variant: no onCleanup; the listeners of a disposed Workspace stay registered
WorkspaceDispose_NoCleanup ==
    /\ WorkspaceSignals(Null)
    /\ UNCHANGED docListeners

\* The Switch disposes KataBrowser and onCleanup runs.  The promises of the
\* disposed Workspace settle into signals nothing observes any more, so they
\* leave the model, and the variables of the Workspace keep the values a new
\* one starts with.
WorkspaceDispose ==
    /\ WorkspaceSignals(Null)
    /\ docListeners' = removeEventListeners(docListeners)

\* ------------------------------------------------------------------ Sidebar
\* variant: the effect opens the lesson's phase and closes the others
AutoExpand_Only(prev, listReady, id) ==
    IF ~listReady \/ id = Null \/ PhaseOf(id) = NoPhase
    THEN prev
    ELSE {PhaseOf(id)}

\* variant: the effect leaves openPhases alone
AutoExpand_Never(prev, listReady, id) == prev

\* the auto-expand effect (createEffect of Sidebar): the value it leaves in
\* openPhases, given the list's availability and the current id
AutoExpand(prev, listReady, id) ==
    IF ~listReady \/ id = Null \/ PhaseOf(id) = NoPhase
    THEN prev
    ELSE IF PhaseOf(id) \in prev THEN prev ELSE prev \cup {PhaseOf(id)}

\* Sidebar(): createResource(fetchKatas) calls the fetcher at once; the effect
\* runs and finds no list
SidebarInit ==
    /\ kataList' = "pending"
    /\ openPhases' = InitialOpenPhases
    /\ listFetched' = TRUE
    /\ UNCHANGED sidebarExpanded

\* the Switch disposes KataBrowser and the Sidebar in it; fetchKatas' promise
\* settles into a resource nothing observes
SidebarDispose ==
    /\ kataList' = "none"
    /\ openPhases' = InitialOpenPhases
    /\ UNCHANGED <<listFetched, sidebarExpanded>>

\* the effect re-runs when currentKataId changes
SidebarIdChanged(newId) ==
    /\ openPhases' = IF newId = currentKataId THEN openPhases
                     ELSE AutoExpand(openPhases, kataList = "ready", newId)
    /\ UNCHANGED <<kataList, listFetched, sidebarExpanded>>

\* the reactive consequences of new values of route and currentKataId
Render(newRoute, newId) ==
    IF Mounted
    THEN IF IsKataRoute(newRoute)
         THEN SourceChanged(newId) /\ SidebarIdChanged(newId)
              /\ UNCHANGED <<wsVars, ghostVars, docListeners>>
         ELSE WorkspaceDispose /\ SidebarDispose
    ELSE IF IsKataRoute(newRoute)
         THEN WorkspaceInit(newId) /\ SidebarInit
         ELSE UNCHANGED <<resVars, wsVars, ghostVars, sideVars, docListeners>>

\* --------------------------------------------------------------- navigation
\* the user follows a link, edits the address or goes back / forward
Navigate(f) ==
    /\ f # hash
    /\ hash' = f
    /\ hashPending' = TRUE
    /\ UNCHANGED <<currentKataId, route, resVars, wsVars, bodyStyled, docListeners, tmVars,
                   ghostVars, sideVars, themeVars>>
    /\ threw' = FALSE

\* variant: only App's listener runs; currentKataId is left as it is
HashChange_RouteOnly ==
    /\ hashPending
    /\ LET newRoute == RouteOf(hash)
       IN /\ Fetches(Mounted, IsKataRoute(newRoute), currentKataId) => CanFetch
          /\ currentKataId' = currentKataId
          /\ route' = newRoute
          /\ Render(newRoute, currentKataId)
    /\ hashPending' = FALSE
    /\ threw' = FALSE
    /\ UNCHANGED <<hash, bodyStyled, tmVars, themeVars>>

\* variant: the listener also rewrites the address to the canonical fragment
\* of the id it parsed
HashChange_Rewrite ==
    /\ hashPending
    /\ LET id == getKataIdFromHash(hash)
           newRoute == RouteOf(hash)
           canon == IF id = Null THEN RootRoute ELSE KatasSlash \o id
       IN /\ Fetches(Mounted, IsKataRoute(newRoute), id) => CanFetch
          /\ currentKataId' = IF id # currentKataId THEN id ELSE currentKataId
          /\ route' = newRoute
          /\ Render(newRoute, id)
          /\ hash' = canon
          /\ hashPending' = (canon # hash)
    /\ threw' = FALSE
    /\ UNCHANGED <<bodyStyled, tmVars, themeVars>>

\* the two hashchange listeners, state.js's first (registered when the module
\* is imported), then App's onHashChange
HashChange ==
    /\ hashPending
    /\ LET id == getKataIdFromHash(hash)
           newRoute == RouteOf(hash)
       IN /\ Fetches(Mounted, IsKataRoute(newRoute), id) => CanFetch
          /\ currentKataId' = IF id # currentKataId THEN id ELSE currentKataId
          /\ route' = newRoute
          /\ Render(newRoute, id)
    /\ hashPending' = FALSE
    /\ threw' = FALSE
    /\ UNCHANGED <<hash, bodyStyled, tmVars, themeVars>>

\* the row of the lesson is rendered: <Show when={sidebarExpanded()}>,
\* <Show when={kataList()}>, <Show when={openPhases().has(phase.phase)}>
RowShown(id) ==
    /\ Mounted
    /\ sidebarExpanded
    /\ kataList = "ready"
    /\ \E i \in DOMAIN KataList :
          id \in KataList[i].katas /\ KataList[i].phase \in openPhases

\* variant: every click on a row reloads the detail, current lesson or not
selectKata_Refetch(id) ==
    /\ RowShown(id)
    /\ LET h == KatasSlash \o id
       IN /\ hash' = h
          /\ hashPending' = (hashPending \/ h # hash)
    /\ CanFetch
    /\ currentKataId' = id
    /\ ResourceLoad(id)
    /\ SidebarIdChanged(id)
    /\ UNCHANGED <<route, wsVars, bodyStyled, docListeners, tmVars, ghostVars, themeVars>>
    /\ threw' = FALSE

\* Sidebar.selectKata(id), the click on a lesson row
selectKata(id) ==
    /\ RowShown(id)
    /\ LET h == KatasSlash \o id
       IN /\ hash' = h
          /\ hashPending' = (hashPending \/ h # hash)
    /\ Fetches(TRUE, TRUE, id) => CanFetch
    /\ currentKataId' = id
    /\ SourceChanged(id)
    /\ SidebarIdChanged(id)
    /\ UNCHANGED <<route, wsVars, bodyStyled, docListeners, tmVars, ghostVars, themeVars>>
    /\ threw' = FALSE

\* ------------------------------------------------- detail fetch settlement
\* an in-flight run predates the load or reset that happens now
MarkStale(reqs) == [i \in DOMAIN reqs |-> [reqs[i] EXCEPT !.stale = TRUE]]

\* loadKata, called by trackKata inside <Show when={trackKata()}>
loadKata(k) ==
    IF k.id # prevKataId
    THEN /\ prevKataId' = k.id
         /\ code' = k.broken_code
         /\ activeView' = "broken"
         /\ result' = NoResult
         /\ showExplanation' = FALSE
         /\ showInterpretation' = FALSE
         /\ codeOrigin' = <<"reset", k.id>>
         /\ resultStale' = FALSE
         /\ runReqs' = MarkStale(runReqs)
         /\ delivered' = NoDelivery
         /\ UNCHANGED <<running, layoutVars, lastFraction>>
    ELSE UNCHANGED <<wsVars, ghostVars>>

\* variant: every settlement is applied, whichever promise it belongs to
IsCurrent_Any(f) == TRUE

\* whether the promise's settlement is applied: loadEnd's  if (pr === p)
IsCurrent(f) == f.isPr

\* fetchKata resolved with the lesson: loadEnd(p, v, undefined, key)
FetchResolve(f) ==
    /\ BagIn(f, fetches)
    /\ f.key \in KataIds
    /\ fetches' = fetches (-) SetToBag({f})
    /\ threw' = FALSE
    /\ IF IsCurrent(f)
       THEN /\ kata' = KataDb(f.key)
            /\ kataError' = FALSE
            /\ frozen' = frozen
            /\ IF frozen
               THEN UNCHANGED <<btnShown, wsVars, ghostVars>>
               ELSE /\ btnShown' = TRUE
                    /\ loadKata(KataDb(f.key))
       ELSE UNCHANGED <<kata, kataError, frozen, btnShown, wsVars, ghostVars>>
    /\ UNCHANGED <<navVars, bodyStyled, docListeners, tmVars, sideVars, themeVars>>

\* variant: loadEnd without  if (pr === p)  for an error: every rejection is
\* stored in the resource
FetchReject_Surface(f) ==
    /\ BagIn(f, fetches)
    /\ fetches' = fetches (-) SetToBag({f})
    /\ kataError' = TRUE
    /\ frozen' = TRUE
    /\ threw' = ~frozen
    /\ UNCHANGED <<kata, btnShown>>
    /\ UNCHANGED <<navVars, wsVars, bodyStyled, docListeners, tmVars, ghostVars, sideVars,
                   themeVars>>

\* fetchKata rejected (network failure or a status that is not ok):
\* loadEnd(p, undefined, error, key).  The resource keeps its value and sets
\* its error; the computations that read kata() run again, the first of them
\* (trackKata) throws, no ErrorBoundary catches it, and the queued updates of
\* this Workspace are abandoned for good.
FetchReject(f) ==
    /\ BagIn(f, fetches)
    /\ fetches' = fetches (-) SetToBag({f})
    /\ IF IsCurrent(f)
       THEN /\ kataError' = TRUE
            /\ frozen' = TRUE
            /\ threw' = ~frozen
            /\ UNCHANGED <<kata, btnShown>>
       ELSE /\ threw' = FALSE
            /\ UNCHANGED <<kata, kataError, frozen, btnShown>>
    /\ UNCHANGED <<navVars, wsVars, bodyStyled, docListeners, tmVars, ghostVars, sideVars,
                   themeVars>>

\* ------------------------------------------------------- Workspace handlers
Frame ==
    UNCHANGED <<navVars, bodyStyled, docListeners, tmVars, lastFraction, sideVars, themeVars>>

\* variant: the code buffer aliases the detail's broken_code, so an edit
\* writes through to the stored lesson
onCodeChange_Alias(val) ==
    /\ Mounted
    /\ code' = val
    /\ activeView' = NoView
    /\ codeOrigin' = <<"edit", val>>
    /\ threw' = FALSE
    /\ kata' = IF kata = Undefined THEN kata ELSE [kata EXCEPT !.broken_code = val]
    /\ UNCHANGED <<result, running, showExplanation, showInterpretation, prevKataId,
                   runReqs, resultStale, layoutVars, delivered,
                   kataError, fetches, frozen, btnShown>>
    /\ Frame

\* variant: an edit that retypes a stored variant is shown as that variant
onCodeChange_MatchView(val) ==
    /\ Mounted
    /\ code' = val
    /\ activeView' = IF kata # Undefined /\ val = kata.broken_code THEN "broken"
                     ELSE IF kata # Undefined /\ val = kata.correct_code THEN "correct"
                     ELSE NoView
    /\ codeOrigin' = <<"edit", val>>
    /\ threw' = FALSE
    /\ UNCHANGED <<result, running, showExplanation, showInterpretation, prevKataId,
                   runReqs, resultStale, layoutVars, resVars, delivered>>
    /\ Frame

\* variant: the textarea is locked while a run is in flight
onCodeChange_WhileIdle(val) ==
    /\ Mounted
    /\ ~running
    /\ code' = val
    /\ activeView' = NoView
    /\ codeOrigin' = <<"edit", val>>
    /\ threw' = FALSE
    /\ UNCHANGED <<result, running, showExplanation, showInterpretation, prevKataId,
                   runReqs, resultStale, layoutVars, resVars, delivered>>
    /\ Frame

\* onCodeChange: the textarea's input event, and the Tab key of handleKeyDown
onCodeChange(val) ==
    /\ Mounted
    /\ code' = val
    /\ activeView' = NoView
    /\ codeOrigin' = <<"edit", val>>
    /\ threw' = FALSE
    /\ UNCHANGED <<result, running, showExplanation, showInterpretation, prevKataId,
                   runReqs, resultStale, layoutVars, resVars, delivered>>
    /\ Frame

\* kata()?.broken_code || ""  and  kata()?.correct_code || ""
StoredCode(view) ==
    IF kata = Undefined THEN ""
    ELSE IF view = "broken" THEN kata.broken_code ELSE kata.correct_code

\* onLoadBroken / onLoadCorrect, the Broken and Correct buttons, which
\* CodePanel renders inside <Show when={props.kata}>
onLoad(view) ==
    /\ Mounted
    /\ btnShown
    /\ IF KataThrows
       THEN /\ threw' = TRUE
            /\ UNCHANGED <<dataVars, delivered>>
       ELSE /\ threw' = FALSE
            /\ code' = StoredCode(view)
            /\ activeView' = view
            /\ result' = NoResult
            /\ codeOrigin' = <<"load", view>>
            /\ resultStale' = FALSE
            /\ runReqs' = MarkStale(runReqs)
            /\ delivered' = NoDelivery
            /\ UNCHANGED <<running, showExplanation, showInterpretation, prevKataId>>
    /\ UNCHANGED <<layoutVars, resVars>>
    /\ Frame

\* variant: no  if (running()) return;  every call posts a request
handleRun_NoGuard ==
    /\ Mounted
    /\ threw' = FALSE
    /\ Len(runReqs) < MaxRunReqs
    /\ running' = TRUE
    /\ result' = NoResult
    /\ resultStale' = FALSE
    /\ runReqs' = Append(runReqs, [code |-> code, stale |-> FALSE])
    /\ delivered' = NoDelivery
    /\ UNCHANGED <<code, activeView, showExplanation, showInterpretation, prevKataId,
                   codeOrigin, layoutVars, resVars>>
    /\ Frame

\* variant: no  setResult(null)  before the request is posted
handleRun_KeepResult ==
    /\ Mounted
    /\ threw' = FALSE
    /\ IF running
       THEN UNCHANGED <<running, runReqs>>
       ELSE /\ Len(runReqs) < MaxRunReqs
            /\ running' = TRUE
            /\ runReqs' = Append(runReqs, [code |-> code, stale |-> FALSE])
    /\ UNCHANGED <<result, resultStale, delivered>>
    /\ UNCHANGED <<code, activeView, showExplanation, showInterpretation, prevKataId,
                   codeOrigin, layoutVars, resVars>>
    /\ Frame

\* handleRun up to its await: the Run button, or Ctrl+Enter in the textarea
\* (which the disabled button does not stop)
handleRun ==
    /\ Mounted
    /\ threw' = FALSE
    /\ IF running
       THEN UNCHANGED <<running, result, runReqs, resultStale, delivered>>
       ELSE /\ Len(runReqs) < MaxRunReqs
            /\ running' = TRUE
            /\ result' = NoResult
            /\ resultStale' = FALSE
            /\ runReqs' = Append(runReqs, [code |-> code, stale |-> FALSE])
            /\ delivered' = NoDelivery
    /\ UNCHANGED <<code, activeView, showExplanation, showInterpretation, prevKataId,
                   codeOrigin, layoutVars, resVars>>
    /\ Frame

RemoveAt(seq, i) == SubSeq(seq, 1, i - 1) \o SubSeq(seq, i + 1, Len(seq))

\* the result object handleRun's catch builds from the error
ErrorResult(message) ==
    [stdout |-> "", stderr |-> "", success |-> FALSE, execution_time_ms |-> 0,
     error |-> message]

\* variant: handleRun without its finally; running is never cleared
RunSettle_NoFinally(i, res) ==
    /\ i \in DOMAIN runReqs
    /\ result' = res
    /\ resultStale' = runReqs[i].stale
    /\ runReqs' = RemoveAt(runReqs, i)
    /\ threw' = FALSE
    /\ UNCHANGED <<code, running, activeView, showExplanation, showInterpretation,
                   prevKataId, codeOrigin, layoutVars, resVars>>
    /\ Frame

\* handleRun after its await: runCode settled with `res`
RunSettle(i, res) ==
    /\ i \in DOMAIN runReqs
    /\ result' = res
    /\ running' = FALSE
    /\ resultStale' = runReqs[i].stale
    /\ runReqs' = RemoveAt(runReqs, i)
    /\ threw' = FALSE
    /\ UNCHANGED <<code, activeView, showExplanation, showInterpretation, prevKataId,
                   codeOrigin, layoutVars, resVars>>
    /\ Frame

onLoadBroken == onLoad("broken")

onLoadCorrect == onLoad("correct")

RunResolve(i, res) ==
    /\ RunSettle(i, res)
    /\ delivered' = [settled |-> TRUE, ok |-> TRUE, body |-> res]

\* variant: handleRun without its catch; the rejection leaves through finally
RunReject_Propagate(i, message) ==
    /\ i \in DOMAIN runReqs
    /\ running' = FALSE
    /\ runReqs' = RemoveAt(runReqs, i)
    /\ threw' = TRUE
    /\ delivered' = [settled |-> TRUE, ok |-> FALSE, message |-> message]
    /\ UNCHANGED <<code, result, resultStale, activeView, showExplanation,
                   showInterpretation, prevKataId, codeOrigin, layoutVars, resVars>>
    /\ Frame

RunReject(i, message) ==
    /\ RunSettle(i, ErrorResult(message))
    /\ delivered' = [settled |-> TRUE, ok |-> FALSE, message |-> message]

\* the spoiler buttons, rendered inside <Show when={kata()}>
ToggleExplanation ==
    /\ Mounted
    /\ btnShown
    /\ showExplanation' = ~showExplanation
    /\ threw' = FALSE
    /\ UNCHANGED <<code, result, running, activeView, showInterpretation, prevKataId,
                   runReqs, codeOrigin, resultStale, layoutVars, resVars,
                   delivered>>
    /\ Frame

ToggleInterpretation ==
    /\ Mounted
    /\ btnShown
    /\ showInterpretation' = ~showInterpretation
    /\ threw' = FALSE
    /\ UNCHANGED <<code, result, running, activeView, showExplanation, prevKataId,
                   runReqs, codeOrigin, resultStale, layoutVars, resVars,
                   delivered>>
    /\ Frame

\* ---------------------------------------------------------- Sidebar events
SideFrame ==
    UNCHANGED <<navVars, resVars, wsVars, bodyStyled, docListeners, tmVars, ghostVars,
                themeVars>>

\* fetchKatas resolved: the list is available and the effect runs again
ListResolve ==
    /\ Mounted
    /\ kataList = "pending"
    /\ kataList' = "ready"
    /\ openPhases' = AutoExpand(openPhases, TRUE, currentKataId)
    /\ threw' = FALSE
    /\ UNCHANGED <<listFetched, sidebarExpanded>>
    /\ SideFrame

\* fetchKatas rejected: kataList() throws in the effect and in
\* <Show when={kataList()}>, and no ErrorBoundary catches it
ListReject ==
    /\ Mounted
    /\ kataList = "pending"
    /\ kataList' = "errored"
    /\ threw' = TRUE
    /\ UNCHANGED <<openPhases, listFetched, sidebarExpanded>>
    /\ SideFrame

\* the click on a phase header, rendered once the list is
togglePhase(phase) ==
    /\ Mounted
    /\ sidebarExpanded
    /\ kataList = "ready"
    /\ openPhases' = IF phase \in openPhases THEN openPhases \ {phase}
                     ELSE openPhases \cup {phase}
    /\ threw' = FALSE
    /\ UNCHANGED <<kataList, listFetched, sidebarExpanded>>
    /\ SideFrame

\* the burger button
toggleSidebar ==
    /\ Mounted
    /\ sidebarExpanded' = ~sidebarExpanded
    /\ threw' = FALSE
    /\ UNCHANGED <<kataList, openPhases, listFetched>>
    /\ SideFrame

\* -------------------------------------------------------------------- theme
\* stored || (prefersDark ? "dark" : "light")
InitialTheme(stored, dark) ==
    IF stored \notin {NoStored, ""} THEN stored ELSE IF dark THEN "dark" ELSE "light"

\* calls of toggleTheme followed after one page load
MaxThemeToggles == 3

\* variant: toggleTheme without localStorage.setItem
toggleTheme_NoPersist ==
    /\ themeToggles < MaxThemeToggles
    /\ LET next == IF theme = "dark" THEN "light" ELSE "dark"
       IN /\ theme' = next
          /\ darkClass' = (next = "dark")
    /\ themeToggles' = themeToggles + 1
    /\ threw' = FALSE
    /\ UNCHANGED <<navVars, resVars, wsVars, bodyStyled, docListeners, tmVars, ghostVars,
                   sideVars, prefersDark, storedTheme>>

\* variant: toggleTheme with no ThemeToggle effect to follow the signal
toggleTheme_NoEffect ==
    /\ themeToggles < MaxThemeToggles
    /\ LET next == IF theme = "dark" THEN "light" ELSE "dark"
       IN /\ theme' = next
          /\ storedTheme' = next
    /\ themeToggles' = themeToggles + 1
    /\ threw' = FALSE
    /\ UNCHANGED <<navVars, resVars, wsVars, bodyStyled, docListeners, tmVars, ghostVars,
                   sideVars, prefersDark, darkClass>>

\* toggleTheme, and the effect of the mounted ThemeToggle (Landing and
\* KataBrowser each render one)
toggleTheme ==
    /\ themeToggles < MaxThemeToggles
    /\ LET next == IF theme = "dark" THEN "light" ELSE "dark"
       IN /\ theme' = next
          /\ storedTheme' = next
          /\ darkClass' = (next = "dark")
    /\ themeToggles' = themeToggles + 1
    /\ threw' = FALSE
    /\ UNCHANGED <<navVars, resVars, wsVars, bodyStyled, docListeners, tmVars, ghostVars,
                   sideVars, prefersDark>>

\* ------------------------------------------------------------- split pane
\* Ratios are exact rationals <<n, d>> with d > 0.
RECURSIVE Gcd(_, _)
Gcd(a, b) == IF b = 0 THEN a ELSE Gcd(b, a % b)

Abs(n) == IF n < 0 THEN 0 - n ELSE n

Reduce(q) ==
    LET g == Gcd(Abs(q[1]), q[2]) IN <<q[1] \div g, q[2] \div g>>

RLess(a, b) == a[1] * b[2] < b[1] * a[2]

MathMin(a, b) == IF RLess(b, a) THEN b ELSE a

MathMax(a, b) == IF RLess(a, b) THEN b ELSE a

\* 0.2 and 0.8
MinRatio == <<1, 5>>

MaxRatio == <<4, 5>>

\* variant: Math.min(0.8, ratio), the lower bound forgotten
ClampRatio_NoLower(ratio) == MathMin(MaxRatio, ratio)

\* Math.max(0.2, Math.min(0.8, ratio))
ClampRatio(ratio) == MathMax(MinRatio, MathMin(MaxRatio, ratio))

\* containerRef.getBoundingClientRect() of the rendered .workspace element
Rects == {[left |-> 2, width |-> 10], [left |-> 0, width |-> 5]}

\* e.clientX of the pointer, which moves over the whole viewport
MaxX == 14

PointerXs == 0..MaxX

DataFrame ==
    UNCHANGED <<navVars, resVars, dataVars, docListeners, tmVars, delivered, sideVars,
                themeVars>>

\* <div class="resize-handle" onMouseDown>, rendered inside <Show when={!maximized()}>
onMouseDown ==
    /\ Mounted
    /\ maximized = NoPanel
    /\ isDragging' = TRUE
    /\ bodyStyled' = TRUE
    /\ threw' = FALSE
    /\ UNCHANGED <<maximized, splitRatio, lastFraction>>
    /\ DataFrame

\* document's mousemove listener, called while it is registered
onMouseMove(clientX, rect) ==
    /\ docListeners.mousemove > 0
    /\ IF ~isDragging
       THEN UNCHANGED <<splitRatio, lastFraction>>
       ELSE /\ splitRatio' = Reduce(ClampRatio(<<clientX - rect.left, rect.width>>))
            /\ lastFraction' = <<clientX - rect.left, rect.width>>
    /\ threw' = FALSE
    /\ UNCHANGED <<maximized, isDragging, bodyStyled>>
    /\ DataFrame

\* document's mouseup listener
onMouseUp ==
    /\ docListeners.mouseup > 0
    /\ IF isDragging
       THEN isDragging' = FALSE /\ bodyStyled' = FALSE
       ELSE UNCHANGED <<isDragging, bodyStyled>>
    /\ threw' = FALSE
    /\ UNCHANGED <<maximized, splitRatio, lastFraction>>
    /\ DataFrame

\* variant: the updater always maximizes the panel
toggleMaximize_Set(cur, panel) == panel

\* setMaximized's updater:  (cur) => (cur === panel ? null : panel)
toggleMaximize(cur, panel) == IF cur = panel THEN NoPanel ELSE panel

\* a panel is rendered with display: none while the other one is maximized
PanelVisible(panel) == maximized \in {NoPanel, panel}

\* the hidden prop of a panel:  hidden={maximized() === "output"}  for the
\* code panel,  hidden={maximized() === "code"}  for the output panel
PanelHidden(panel) ==
    IF panel = "code" THEN maximized = "output" ELSE maximized = "code"

\* variant: the basis follows splitRatio also while the other panel is maximized
PanelBasis_NoZero(panel) ==
    IF maximized = panel THEN <<1, 1>>
    ELSE IF panel = "code" THEN splitRatio
    ELSE Reduce(<<splitRatio[2] - splitRatio[1], splitRatio[2]>>)

\* the basis prop of a panel as a fraction of the layout: "100%", "0%",
\* `${splitRatio() * 100}%`  or  `${(1 - splitRatio()) * 100}%`
PanelBasis(panel) ==
    IF maximized = panel THEN <<1, 1>>
    ELSE IF maximized # NoPanel THEN <<0, 1>>
    ELSE IF panel = "code" THEN splitRatio
    ELSE Reduce(<<splitRatio[2] - splitRatio[1], splitRatio[2]>>)

\* <Show when={!maximized()}> around the resize handle
HandleRendered == maximized = NoPanel

\* the maximize button of a panel: onMaximize={() => toggleMaximize(panel)}
onMaximize(panel) ==
    /\ Mounted
    /\ PanelVisible(panel)
    /\ maximized' = toggleMaximize(maximized, panel)
    /\ threw' = FALSE
    /\ UNCHANGED <<splitRatio, isDragging, bodyStyled, lastFraction>>
    /\ DataFrame

\* -------------------------------------------- toggleMaximize as a function
\* calls of toggleMaximize in a row that the function is followed through
MaxToggleCalls == 5

\* toggleMaximize(panel) called on its own, from any value of maximized
CallToggleMaximize(panel) ==
    /\ Len(tmCalls) < MaxToggleCalls
    /\ tmHist' = Append(tmHist, toggleMaximize(tmHist[Len(tmHist)], panel))
    /\ tmCalls' = Append(tmCalls, panel)
    /\ UNCHANGED <<navVars, resVars, wsVars, bodyStyled, docListeners, threw, ghostVars,
                   sideVars, themeVars>>

\* ------------------------------------------------------------ specifications
\* the state a page load leaves, given the address and the theme inputs
InitPage ==
    /\ hashPending = FALSE
    /\ currentKataId = getKataIdFromHash(hash)
    /\ route = RouteOf(hash)
    /\ LET w == NewWorkspace(IF IsKataRoute(RouteOf(hash))
                             THEN getKataIdFromHash(hash) ELSE Null)
       IN /\ code = w.code
          /\ result = w.result
          /\ running = w.running
          /\ activeView = w.activeView
          /\ showExplanation = w.showExplanation
          /\ showInterpretation = w.showInterpretation
          /\ prevKataId = w.prevKataId
          /\ maximized = w.maximized
          /\ splitRatio = w.splitRatio
          /\ isDragging = w.isDragging
          /\ kata = w.kata
          /\ kataError = w.kataError
          /\ fetches = w.fetches
    /\ runReqs = <<>>
    /\ frozen = FALSE
    /\ btnShown = FALSE
    /\ bodyStyled = FALSE
    /\ docListeners = IF IsKataRoute(RouteOf(hash)) THEN addEventListeners(NoListeners)
                      ELSE NoListeners
    /\ codeOrigin = <<"init">>
    /\ resultStale = FALSE
    /\ delivered = NoDelivery
    /\ lastFraction = NoFraction
    /\ threw = FALSE
    /\ kataList = IF IsKataRoute(RouteOf(hash)) THEN "pending" ELSE "none"
    /\ openPhases = InitialOpenPhases
    /\ listFetched = IsKataRoute(RouteOf(hash))
    /\ sidebarExpanded = TRUE
    /\ theme = InitialTheme(storedTheme, prefersDark)
    /\ darkClass = (InitialTheme(storedTheme, prefersDark) = "dark")
    /\ themeToggles = 0

\* The page is opened at any of the fragments, in a browser with no stored
\* theme and a light colour scheme.
InitApp ==
    /\ hash \in Fragments
    /\ storedTheme = NoStored
    /\ prefersDark = FALSE
    /\ InitPage

\* ---------------------------------------------------------------- page load
\* longest text after the prefix in the addresses a page is opened at
MaxIdLen == 2

IdChars == {"a", "/"}

\* window.location.hash at page load: empty, or "#" and anything after it
StartFragments ==
    LET prefixes == {<<"#">>, RootRoute, KatasRoute, KatasSlash,
                     <<"#", "/", "k", "a", "t", "a", "/">>,
                     <<"#", "/", "a">> \o KatasSlash}
        tails == UNION {[1..n -> IdChars] : n \in 0..MaxIdLen}
    IN {<<>>} \cup {pre \o tail : pre \in prefixes, tail \in tails}

\* the page is loaded (opened or reloaded) at fragment f: the modules are
\* evaluated and App is rendered; localStorage and the OS setting stay
PageLoad(f) ==
    LET id == getKataIdFromHash(f)
        mounts == IsKataRoute(RouteOf(f))
    IN /\ hash' = f
       /\ hashPending' = FALSE
       /\ currentKataId' = id
       /\ route' = RouteOf(f)
       /\ WorkspaceSignals(IF mounts THEN id ELSE Null)
       /\ docListeners' = IF mounts THEN addEventListeners(NoListeners) ELSE NoListeners
       /\ kataList' = IF mounts THEN "pending" ELSE "none"
       /\ openPhases' = InitialOpenPhases
       /\ listFetched' = mounts
       /\ sidebarExpanded' = TRUE
       /\ bodyStyled' = FALSE
       /\ threw' = FALSE
       /\ theme' = InitialTheme(storedTheme, prefersDark)
       /\ darkClass' = (InitialTheme(storedTheme, prefersDark) = "dark")
       /\ themeToggles' = 0
       /\ UNCHANGED <<storedTheme, prefersDark, tmVars>>

Init ==
    /\ InitApp
    /\ tmHist = <<NoPanel>>
    /\ tmCalls = <<>>

NavNext ==
    \/ \E f \in Fragments : Navigate(f)
    \/ HashChange
    \/ \E id \in KataIds : selectKata(id)

\* navigation, the kata resource and the code / run handlers of the Workspace
Next ==
    \/ NavNext
    \/ ListResolve
    \/ \E f \in BagToSet(fetches) : FetchResolve(f)
    \/ \E f \in BagToSet(fetches) : FetchReject(f)
    \/ \E val \in Texts : onCodeChange(val)
    \/ onLoadBroken
    \/ onLoadCorrect
    \/ handleRun
    \/ \E i \in DOMAIN runReqs : \E res \in RunResults : RunResolve(i, res)
    \/ \E i \in DOMAIN runReqs : \E m \in RunErrors : RunReject(i, m)

Spec == Init /\ [][Next]_vars

\* navigation, the kata resource, the run request and the two disclosures:
\* what loadKata resets besides the code buffer
NextReset ==
    \/ NavNext
    \/ ListResolve
    \/ \E f \in BagToSet(fetches) : FetchResolve(f)
    \/ \E f \in BagToSet(fetches) : FetchReject(f)
    \/ handleRun
    \/ \E i \in DOMAIN runReqs : \E res \in RunResults : RunResolve(i, res)
    \/ \E i \in DOMAIN runReqs : \E m \in RunErrors : RunReject(i, m)
    \/ ToggleExplanation
    \/ ToggleInterpretation

SpecReset == Init /\ [][NextReset]_vars

\* navigation (which mounts and disposes the Workspace) and the handlers of
\* the split pane; they share no variable with the handlers of Next
NextLayout ==
    \/ \E f \in Fragments : Navigate(f)
    \/ HashChange
    \/ onMouseDown
    \/ \E x \in PointerXs : \E rect \in Rects : onMouseMove(x, rect)
    \/ onMouseUp
    \/ \E panel \in Panels : onMaximize(panel)

SpecLayout == Init /\ [][NextLayout]_vars

\* toggleMaximize applied to every value maximized can hold
InitToggle ==
    /\ InitApp
    /\ tmHist \in {<<v>> : v \in Panels \cup {NoPanel}}
    /\ tmCalls = <<>>

NextToggle == \E panel \in Panels : CallToggleMaximize(panel)

SpecToggle == InitToggle /\ [][NextToggle]_vars

\* navigation (also to a lesson the server does not have), the two resources
\* and the Sidebar's handlers
NextSidebar ==
    \/ \E f \in Fragments \cup {KatasSlash \o UnlistedId} : Navigate(f)
    \/ HashChange
    \/ \E id \in KataIds : selectKata(id)
    \/ ListResolve
    \/ ListReject
    \/ \E phase \in Phases : togglePhase(phase)
    \/ toggleSidebar
    \/ \E f \in BagToSet(fetches) : FetchResolve(f)
    \/ \E f \in BagToSet(fetches) : FetchReject(f)

SpecSidebar == Init /\ [][NextSidebar]_vars

\* page loads at any address, with any stored theme and OS colour scheme, and
\* the theme toggle
InitStartup ==
    /\ hash \in StartFragments
    /\ storedTheme \in Themes \cup {NoStored}
    /\ prefersDark \in BOOLEAN
    /\ InitPage
    /\ tmHist = <<NoPanel>>
    /\ tmCalls = <<>>

NextStartup ==
    \/ \E f \in StartFragments : PageLoad(f)
    \/ toggleTheme

SpecStartup == InitStartup /\ [][NextStartup]_vars

\* positions of the pointer during a run: left of, inside and right of the range
RunPointerXs == {0, MaxX \div 2, MaxX}

\* a run in flight together with everything the user can do meanwhile: edits,
\* loads, lesson selection in the list, and the split pane
NextRun ==
    \/ \E id \in KataIds : selectKata(id)
    \/ ListResolve
    \/ \E f \in BagToSet(fetches) : FetchResolve(f)
    \/ \E val \in Texts : onCodeChange(val)
    \/ onLoadBroken
    \/ onLoadCorrect
    \/ handleRun
    \/ \E i \in DOMAIN runReqs : \E res \in RunResults : RunResolve(i, res)
    \/ onMouseDown
    \/ \E x \in RunPointerXs : onMouseMove(x, [left |-> 2, width |-> 10])
    \/ onMouseUp
    \/ \E panel \in Panels : onMaximize(panel)

SpecRun == Init /\ [][NextRun]_vars

\* runCode settles: the await of some pending handleRun continues
RunSettles ==
    \/ \E i \in DOMAIN runReqs : \E res \in RunResults : RunResolve(i, res)
    \/ \E i \in DOMAIN runReqs : \E m \in RunErrors : RunReject(i, m)

\* the run, its two outcomes, and what can happen in the Workspace meanwhile
NextSettle ==
    \/ \E id \in KataIds : selectKata(id)
    \/ ListResolve
    \/ \E f \in BagToSet(fetches) : FetchResolve(f)
    \/ \E f \in BagToSet(fetches) : FetchReject(f)
    \/ \E val \in Texts : onCodeChange(val)
    \/ onLoadBroken
    \/ onLoadCorrect
    \/ handleRun
    \/ RunSettles

\* the run collaborator answers every request sooner or later
SpecSettle == Init /\ [][NextSettle]_vars /\ WF_vars(RunSettles)

\* strings under the key "theme" that toggleTheme never wrote: an empty one,
\* and one left by something else on the same origin
OtherStored == {"", "solarized"}

\* page loads with any string, or none, under the key "theme"
InitStored ==
    /\ hash \in StartFragments
    /\ storedTheme \in Themes \cup {NoStored} \cup OtherStored
    /\ prefersDark \in BOOLEAN
    /\ InitPage
    /\ tmHist = <<NoPanel>>
    /\ tmCalls = <<>>

SpecStored == InitStored /\ [][NextStartup]_vars

\* ------------------------------------------------------------------- claims
\* C1: a detail response is applied only when it belongs to the lesson that is
\* current when it arrives.  Every step that changes the stored detail stores
\* the detail of the id that is current after the step (or empties it, when
\* the Workspace is disposed), and whenever the Workspace has a current id, no
\* current fetch pending and no fetch error, the stored detail is that id's:
\* a late response for k1 never replaces k2's detail.
C1_OnlyCurrentDetailApplied ==
    [][/\ (kata' # kata /\ kata' # Undefined) => kata' = KataDb(currentKataId')
       /\ (Mounted' /\ currentKataId' # Null /\ PrIsNull' /\ ~kataError')
            => kata' = KataDb(currentKataId')]_vars

\* k2's detail is stored and current while an overtaken fetch of another
\* lesson is still in flight
C1_Witness ==
    /\ Mounted
    /\ kata # Undefined
    /\ kata.id = currentKataId
    /\ PrIsNull
    /\ \E f \in BagToSet(fetches) : f.key # currentKataId

\* C2: at most one run request is in flight per Workspace, running is true
\* exactly while it is, and a call of handleRun made meanwhile neither adds a
\* request nor replaces the code the request in flight was posted with.
C2_OneRunInFlight ==
    [][/\ Len(runReqs') <= 1
       /\ running' <=> Len(runReqs') = 1
       /\ (Len(runReqs) = 1 /\ Len(runReqs') = 1) => runReqs'[1].code = runReqs[1].code]_vars

\* a run is in flight and the buffer has been edited since it was posted, so
\* a further call of handleRun would post different code
C2_Witness ==
    /\ Mounted
    /\ running
    /\ Len(runReqs) = 1
    /\ runReqs[1].code # code

\* C3: a run that resolves with r stores r unchanged (a rejected one stores the
\* error-shaped result) and ends Running; while a run is in flight no result
\* is stored, so the previous run's result is cleared before the new one
\* arrives.
C3_ResultStoredAndCleared ==
    /\ running => result = NoResult
    /\ ~delivered.settled => result = NoResult
    /\ delivered.settled =>
          /\ ~running
          /\ result = IF delivered.ok THEN delivered.body
                      ELSE ErrorResult(delivered.message)

\* a run resolved with a result of the server, which is stored as delivered
C3_Witness ==
    /\ ~running
    /\ delivered.settled
    /\ delivered.ok
    /\ result = delivered.body
    /\ result \in RunResults

\* C4: after every call of onLoadBroken / onLoadCorrect that returns, the
\* buffer holds the stored variant, activeView names it, no result is held and
\* no run is Running.
C4_LoadLeavesIdle ==
    [][\A view \in {"broken", "correct"} :
          (onLoad(view) /\ ~threw') =>
              /\ code' = StoredCode(view)
              /\ activeView' = view
              /\ result' = NoResult
              /\ ~running']_vars

\* C5: when the detail that resolves has an id other than the one the
\* Workspace initialized for, the step resets the buffer to its broken_code,
\* the view to Broken, the run state to Idle and closes both disclosures.
C5_ResetOnNewDetail ==
    [][\A f \in BagToSet(fetches) :
          (FetchResolve(f) /\ IsCurrent(f) /\ f.key # prevKataId) =>
              /\ code' = KataDb(f.key).broken_code
              /\ activeView' = "broken"
              /\ result' = NoResult
              /\ ~running'
              /\ ~showExplanation'
              /\ ~showInterpretation']_vars

\* C6: the result of a run posted before the most recent load or reset is
\* never the stored result.
C6_StaleRunDiscarded == result # NoResult => ~resultStale

\* C7: the stored detail is always a lesson as the server delivered it, an
\* edit leaves it as it is, and a load from a readable resource puts exactly
\* the delivered broken_code (correct_code) into the buffer and names the view.
C7_BufferIsIndependentCopy ==
    [][/\ kata' = Undefined \/ kata' = KataDb(kata'.id)
       /\ \A val \in Texts : onCodeChange(val) => kata' = kata
       /\ \A view \in {"broken", "correct"} :
             (onLoad(view) /\ ~KataThrows /\ kata # Undefined) =>
                 /\ code' = IF view = "broken" THEN KataDb(kata.id).broken_code
                            ELSE KataDb(kata.id).correct_code
                 /\ activeView' = view]_vars

\* the buffer was loaded from the stored detail after an edit that typed over
\* the lesson's broken code
C7_Witness ==
    /\ codeOrigin = <<"load", "broken">>
    /\ kata # Undefined
    /\ code = KataDb(kata.id).broken_code
    /\ activeView = "broken"
    /\ \E i \in DOMAIN runReqs : runReqs[i].code \in Texts

\* C8: while the buffer's last producer is an edit, the buffer holds the
\* edited text and activeView is None, whatever the text; only a load or a
\* reset names a view.
C8_EditClearsView ==
    /\ codeOrigin[1] = "edit" => (code = codeOrigin[2] /\ activeView = NoView)
    /\ codeOrigin[1] = "load" => activeView = codeOrigin[2]
    /\ codeOrigin[1] \in {"init", "reset"} => activeView = "broken"

\* the user retyped the lesson's broken code; the view is still None
C8_Witness ==
    /\ codeOrigin[1] = "edit"
    /\ kata # Undefined
    /\ code = kata.broken_code
    /\ activeView = NoView

\* C9: splitRatio is within [0.2, 0.8] in every state; after a drag move it is
\* the pointer fraction when that lies in the range, and the nearer end of
\* the range otherwise.
C9_SplitRatioClamped ==
    /\ splitRatio[2] > 0
    /\ 5 * splitRatio[1] >= splitRatio[2]
    /\ 5 * splitRatio[1] <= 4 * splitRatio[2]
    /\ lastFraction # NoFraction =>
          LET n == lastFraction[1]
              d == lastFraction[2]
          IN IF 5 * n < d THEN splitRatio = <<1, 5>>
             ELSE IF 5 * n > 4 * d THEN splitRatio = <<4, 5>>
             ELSE splitRatio[1] * d = n * splitRatio[2]

\* a drag moved the pointer left of the container and the ratio stopped at 0.2
C9_Witness ==
    /\ isDragging
    /\ lastFraction[1] < 0
    /\ splitRatio = <<1, 5>>

C11_MaximizedLayout ==
    Mounted =>
        IF maximized # NoPanel
        THEN /\ {panel \in Panels : ~PanelHidden(panel)} = {maximized}
             /\ PanelBasis(maximized) = <<1, 1>>
             /\ \A other \in Panels \ {maximized} :
                   PanelHidden(other) /\ PanelBasis(other) = <<0, 1>>
             /\ ~HandleRendered
        ELSE /\ \A panel \in Panels : ~PanelHidden(panel)
             /\ PanelBasis("code") = splitRatio
             /\ LET o == PanelBasis("output")
                IN o[1] * splitRatio[2] + splitRatio[1] * o[2] = o[2] * splitRatio[2]
             /\ HandleRendered

\* the output panel is maximized after a drag that moved the ratio to 0.8
C11_Witness ==
    /\ Mounted
    /\ maximized = "output"
    /\ splitRatio = <<4, 5>>
    /\ PanelHidden("code")

\* C12: after a page load, before any interaction, currentKataId is the text
\* after "#/katas/" when the fragment is "#/katas/" followed by at least one
\* character, and null for every other fragment; no fragment makes the load
\* throw.
C12_StartupIdFromFragment ==
    /\ ~threw
    /\ ~hashPending
    /\ currentKataId =
          IF /\ Len(hash) > Len(KatasSlash)
             /\ \A i \in 1..Len(KatasSlash) : hash[i] = KatasSlash[i]
          THEN [i \in 1..(Len(hash) - Len(KatasSlash)) |-> hash[i + Len(KatasSlash)]]
          ELSE Null

\* the page was opened at "#/katas/a/": the id is everything after the prefix
C12_Witness ==
    /\ hash = KatasSlash \o <<"a", "/">>
    /\ currentKataId = <<"a", "/">>
    /\ kataList = "pending"

\* C13: selectKata(id) sets currentKataId to id and the fragment to
\* "#/katas/<id>", which leaves the two in agreement; a hashchange delivered
\* while they agree changes neither currentKataId nor the fragment and starts
\* no fetch, however many selections preceded it.
C13_SelectCausesNoSecondUpdate ==
    [][LET Agree(h, c) ==
               \/ c # Null /\ h = KatasSlash \o c
               \/ /\ c = Null
                  /\ ~(/\ Len(h) > Len(KatasSlash)
                       /\ \A i \in 1..Len(KatasSlash) : h[i] = KatasSlash[i])
       IN /\ \A id \in KataIds :
                selectKata(id) =>
                    /\ currentKataId' = id
                    /\ hash' = KatasSlash \o id
                    /\ Agree(hash', currentKataId')
          /\ (HashChange /\ Agree(hash, currentKataId)) =>
                /\ UNCHANGED <<currentKataId, hash>>
                /\ BagCardinality(fetches') <= BagCardinality(fetches)
                /\ (Mounted /\ Mounted') => UNCHANGED <<resVars, wsVars>>]_vars

\* a lesson was selected in the list and the notification of the fragment
\* write is still to be delivered
C13_Witness ==
    /\ hashPending
    /\ kataList = "ready"
    /\ currentKataId # Null
    /\ hash = KatasSlash \o currentKataId
    /\ route # hash

\* C14: once every fragment change has been handled, currentKataId is the id
\* of the fragment "#/katas/<id>", and null for a fragment of another form.
C14_IdFollowsFragment ==
    ~hashPending =>
        IF \E id \in KataIds \cup {UnlistedId} : hash = KatasSlash \o id
        THEN currentKataId # Null /\ hash = KatasSlash \o currentKataId
        ELSE currentKataId = Null

\* back from a lesson to "#/katas": the id is null again while the lesson
\* fetched before is still stored
C14_Witness ==
    /\ ~hashPending
    /\ hash = KatasRoute
    /\ currentKataId = Null
    /\ kata # Undefined

\* C15: a step of a mounted Sidebar in which the list becomes available or
\* currentKataId changes leaves openPhases as the previous set plus the phase
\* of the current lesson; nothing is removed, and with a null id or an id in
\* no phase the set is unchanged.
C15_AutoExpandOnlyAdds ==
    [][(/\ Mounted /\ Mounted'
        /\ kataList' = "ready"
        /\ kataList # "ready" \/ currentKataId' # currentKataId)
         => openPhases' = openPhases \cup
                {KataList[i].phase : i \in {j \in DOMAIN KataList :
                                               currentKataId' \in KataList[j].katas}}]_vars

\* the user closed phase 0 and opened phase 2; the phase of the current
\* lesson was added and phase 2 is still open
C15_Witness ==
    /\ kataList = "ready"
    /\ currentKataId = <<"b">>
    /\ openPhases = {1, 2}

\* C16 as stated: whenever the list is loaded and currentKataId is a lesson of
\* phase p, p is in openPhases.
C16_CurrentPhaseAlwaysOpen ==
    (kataList = "ready" /\ currentKataId # Null) =>
        \A i \in DOMAIN KataList :
            currentKataId \in KataList[i].katas => KataList[i].phase \in openPhases

\* C16 amended: with the list loaded, the phase p of the current lesson is
\* missing from openPhases after a step only if the list was loaded and the id
\* the same before the step, and p was missing already or the step removed
\* exactly p (the user's togglePhase(p)).  A list load or a change of
\* currentKataId always leaves p open.
C16_CurrentPhaseOpenUntilCollapsed ==
    [][\A i \in DOMAIN KataList :
          (/\ kataList' = "ready"
           /\ currentKataId' \in KataList[i].katas
           /\ KataList[i].phase \notin openPhases')
            => /\ kataList = "ready"
               /\ currentKataId' = currentKataId
               /\ \/ KataList[i].phase \notin openPhases
                  \/ openPhases = openPhases' \cup {KataList[i].phase}]_vars

\* the user closed phase 0; the phase of the current lesson was opened by
\* the effect and is the only open one
C16_Witness ==
    /\ kataList = "ready"
    /\ currentKataId = <<"b">>
    /\ openPhases = {1}

\* C17: the step in which runCode rejects throws nothing, stores a result of
\* the normal shape with success false, empty stdout, execution time 0 and
\* the failure's message as error, and ends Running.
C17_RunFailureReshaped ==
    [][(Len(runReqs') < Len(runReqs) /\ delivered'.settled /\ ~delivered'.ok) =>
          /\ ~threw'
          /\ ~running'
          /\ result' = [stdout |-> "", stderr |-> "", success |-> FALSE,
                        execution_time_ms |-> 0, error |-> delivered'.message]]_vars

\* the run collaborator answered with status 500 and the message is stored
C17_Witness ==
    /\ ~running
    /\ ~threw
    /\ result # NoResult
    /\ ~result.success
    /\ delivered.settled
    /\ ~delivered.ok
    /\ delivered.message \in RunErrors

\* C18: no step ends in an uncaught exception and the Workspace's reactive
\* graph is never stopped: a failed list or detail fetch stays inside the
\* component that requested it.
C18_FetchFailureContained == ~threw /\ ~frozen

\* C19: right after a page load the theme is the stored one, or the OS
\* preference when nothing is stored; every toggleTheme flips it and stores
\* the new value, so after one or more toggles the stored string is the theme.
C19_ThemeInitialAndToggle ==
    /\ [](/\ theme \in Themes
          /\ themeToggles = 0 =>
                theme = IF storedTheme \in Themes THEN storedTheme
                        ELSE IF prefersDark THEN "dark" ELSE "light"
          /\ themeToggles >= 1 => storedTheme = theme)
    /\ [][themeToggles' = themeToggles + 1 => theme' # theme]_vars

\* nothing stored and an OS preference for dark gave Dark; one toggle made it
\* Light and stored "light"
C19_Witness ==
    /\ prefersDark
    /\ themeToggles = 1
    /\ theme = "light"
    /\ storedTheme = "light"
    /\ ~darkClass

\* C20: fetchKatas is called at most once per page load: a step that starts
\* a list fetch is taken only when none was started before.
C20_ListFetchedOnce ==
    [][(kataList # "pending" /\ kataList' = "pending") => ~listFetched]_vars

\* C21: splitRatio and maximized change only in a drag move or a call of
\* toggleMaximize; every other step, navigation between the routes included,
\* leaves both as they are.
C21_LayoutPersists ==
    [][(maximized' # maximized \/ splitRatio' # splitRatio) =>
          \/ \E x \in PointerXs : \E rect \in Rects : onMouseMove(x, rect)
          \/ \E panel \in Panels : onMaximize(panel)]_vars

\* C22: the buffer, the view and the run state are reset exactly in the steps
\* in which a detail with an id other than the last initialized one resolves:
\* such a step leaves the lesson's broken code, the Broken view, no result and
\* no run in progress; a resolution with the last initialized id leaves all
\* four as they are; and no other step puts the buffer back to a start value.
C22_ResetExactlyOnNewDetail ==
    [][/\ \A f \in BagToSet(fetches) :
             (FetchResolve(f) /\ IsCurrent(f)) =>
                 IF f.key = prevKataId
                 THEN UNCHANGED <<code, activeView, result, running>>
                 ELSE /\ code' = KataDb(f.key).broken_code
                      /\ activeView' = "broken"
                      /\ result' = NoResult
                      /\ ~running'
       /\ (codeOrigin' # codeOrigin /\ codeOrigin'[1] \in {"init", "reset"}) =>
             \E f \in BagToSet(fetches) :
                 FetchResolve(f) /\ IsCurrent(f) /\ f.key # prevKataId]_vars

\* C23: the rejection of a detail fetch whose id is not the current one only
\* removes that fetch: the stored detail, the error, the other pending
\* fetches and the Workspace stay as they are and nothing is thrown; an error
\* appears in the resource only in the rejection of a fetch of the current id.
C23_StaleFailureDropped ==
    [][\A f \in BagToSet(fetches) :
          FetchReject(f) =>
              /\ f.key # currentKataId =>
                    /\ UNCHANGED <<kata, kataError, frozen, btnShown, wsVars>>
                    /\ ~threw'
                    /\ \A g \in BagToSet(fetches) \ {f} :
                          CopiesIn(g, fetches') = CopiesIn(g, fetches)
              /\ (kataError' /\ ~kataError) => f.key = currentKataId]_vars

\* the failure of the current lesson's fetch is on display while the fetch of
\* the lesson shown before is still in flight and can only fail as a stale one
C23_Witness ==
    /\ Mounted
    /\ kataError
    /\ PrIsNull
    /\ currentKataId = UnlistedId
    /\ \E f \in BagToSet(fetches) : f.key # currentKataId

\* C24: a step that changes currentKataId to a non-null id adds exactly one
\* pending fetch, of that id and current, and keeps every fetch that was
\* pending; a step that changes it to null, or leaves it as it is, adds none;
\* and while the Workspace stays mounted a change to null removes none.
C24_OneFetchPerIdChange ==
    [][LET Count(fs, k) == CopiesIn(Promise(k, TRUE), fs) + CopiesIn(Promise(k, FALSE), fs)
           Ids == KataIds \cup {UnlistedId}
       IN IF currentKataId' # currentKataId /\ currentKataId' # Null
          THEN /\ Mounted'
               /\ CopiesIn(Promise(currentKataId', TRUE), fetches') = 1
               /\ \A k \in Ids :
                     Count(fetches', k) =
                        Count(fetches, k) + (IF k = currentKataId' THEN 1 ELSE 0)
          ELSE /\ \A k \in Ids : Count(fetches', k) <= Count(fetches, k)
               /\ (currentKataId' # currentKataId /\ Mounted /\ Mounted') =>
                     \A k \in Ids : Count(fetches', k) = Count(fetches, k)]_vars

\* the fetch of the lesson selected last is the current one and the fetch of
\* the lesson selected before it is still in flight
C24_Witness ==
    /\ Mounted
    /\ BagCardinality(fetches) >= 2
    /\ CopiesIn(Promise(currentKataId, TRUE), fetches) = 1
    /\ \E f \in BagToSet(fetches) : f.key # currentKataId /\ ~f.isPr

\* C25: once the latest fetch of the current lesson has succeeded (the
\* resource holds the lesson of currentKataId, with no current fetch pending
\* and no error), the lesson is on display and the Workspace is initialized
\* for it.  In such a state no further settlement can bring the display about
\* while currentKataId stays, so "eventually" has to hold already.
C25_SucceededDetailShown ==
    (/\ Mounted
     /\ currentKataId # Null
     /\ PrIsNull
     /\ ~kataError
     /\ kata = KataDb(currentKataId))
        => /\ btnShown
           /\ prevKataId = currentKataId

C27_ListenersReleased ==
    docListeners = IF Mounted THEN [mousemove |-> 1, mouseup |-> 1]
                   ELSE [mousemove |-> 0, mouseup |-> 0]

\* the Workspace was disposed in the middle of a drag (the body still carries
\* the drag's styling) and no listener is left on the document
C27_Witness ==
    /\ ~Mounted
    /\ bodyStyled
    /\ docListeners = NoListeners

\* C28: the cursor and text-selection override on the body is in force
\* exactly while a drag is in progress in a mounted Workspace.
C28_StylingOnlyDuringDrag == bodyStyled <=> (Mounted /\ isDragging)

\* C29: a request is posted with the buffer as it is when handleRun is
\* called, and no later step changes the code of a request in flight; while
\* the run is in flight the edit, the two loads, the selection of a listed
\* lesson, the maximize buttons and the divider are enabled exactly as they
\* are without a run.
C29_RunSendsSnapshotUnblocked ==
    /\ [][/\ Len(runReqs') > Len(runReqs) =>
                /\ runReqs'[Len(runReqs')].code = code
                /\ code' = code
          /\ Len(runReqs') >= Len(runReqs) =>
                \A i \in DOMAIN runReqs : runReqs'[i].code = runReqs[i].code]_vars
    /\ []((running /\ Mounted) =>
            /\ \A val \in Texts : ENABLED onCodeChange(val)
            /\ btnShown => (ENABLED onLoadBroken /\ ENABLED onLoadCorrect)
            /\ \A id \in KataIds :
                  (RowShown(id) /\ (id = currentKataId \/ CanFetch)) =>
                      ENABLED selectKata(id)
            /\ \A panel \in Panels : PanelVisible(panel) => ENABLED onMaximize(panel)
            /\ maximized = NoPanel => ENABLED onMouseDown
            /\ ENABLED onMouseUp)

\* during one run the user loaded the correct variant, selected the other
\* lesson and maximized the output panel; the request still carries the text
\* that was in the buffer when Run was pressed
C29_Witness ==
    /\ running
    /\ Len(runReqs) = 1
    /\ runReqs[1].code \in Texts
    /\ codeOrigin = <<"load", "correct">>
    /\ code # runReqs[1].code
    /\ CopiesIn(Promise(currentKataId, TRUE), fetches) = 1
    /\ maximized = "output"

\* C30: after startup and after every toggle the document root carries the
\* class "dark" exactly when the theme is Dark.
C30_RootReflectsTheme == darkClass <=> theme = "dark"

\* two toggles after a page load in a browser that prefers dark, the theme
\* is Light and the root has no dark class
C30_Witness ==
    /\ prefersDark
    /\ themeToggles = 2
    /\ theme = "light"
    /\ ~darkClass

\* C31: whenever a run is in progress, running is false again later, given
\* that runCode settles, whichever way it settles; and whenever no run is in
\* progress in a mounted Workspace, handleRun can be called and starts one.
C31_RunAlwaysEnds ==
    /\ running ~> ~running
    /\ []((Mounted /\ ~running) => ENABLED (handleRun /\ running'))

\* a run of edited code failed and has ended: nothing is in flight, its error
\* result is stored and the Workspace is ready for the next run
C31_Witness ==
    /\ Mounted
    /\ ~running
    /\ runReqs = <<>>
    /\ delivered.settled
    /\ ~delivered.ok
    /\ codeOrigin[1] = "edit"

\* C32: while a lesson is displayed (the last detail that went through
\* trackKata into the rendered <Show>, whose id loadKata keeps in prevKataId),
\* a view named Broken means the buffer is that lesson's broken_code and a
\* view named Correct means it is its correct_code.
C32_ViewMatchesBuffer ==
    (Mounted /\ btnShown /\ prevKataId # Null) =>
        LET displayed == KataDb(prevKataId)
        IN /\ activeView = "broken" => code = displayed.broken_code
           /\ activeView = "correct" => code = displayed.correct_code

\* C33 as stated: selectKata(k) while k is the current lesson starts no
\* fetch, resets nothing and leaves the buffer, the view, the result and the
\* fragment as they are.
C33_ReselectChangesNothing ==
    [][\A id \in KataIds :
          (selectKata(id) /\ currentKataId = id) =>
              UNCHANGED <<resVars, wsVars, currentKataId, hash>>]_vars

\* C33 amended: selectKata(k) while k is the current lesson starts no fetch,
\* resets nothing and leaves the Workspace and currentKataId as they are; it
\* leaves the fragment "#/katas/k", which is a change only when an address
\* change to another fragment has not been handled yet.
C33_ReselectKeepsWorkspace ==
    [][\A id \in KataIds :
          (selectKata(id) /\ currentKataId = id) =>
              /\ UNCHANGED <<resVars, wsVars, currentKataId, route, sideVars>>
              /\ hash' = KatasSlash \o id
              /\ ~hashPending => UNCHANGED <<hash, hashPending>>]_vars

\* the current lesson's row was clicked after the address had been changed
\* to the other lesson: the fragment is the current lesson's again, the
\* loaded detail is untouched and no fetch was started
C33_Witness ==
    /\ hashPending
    /\ currentKataId # Null
    /\ hash = KatasSlash \o currentKataId
    /\ route = hash
    /\ kata = KataDb(currentKataId)
    /\ fetches = EmptyBag

\* C34: a step changes splitRatio only if it is a pointer move handled while
\* a drag is in progress; pointer moves outside a drag, pointer-up,
\* toggleMaximize and every other step leave it as it is.
C34_RatioMovesOnlyInDrag ==
    [][splitRatio' # splitRatio =>
          /\ isDragging
          /\ \E x \in PointerXs : \E rect \in Rects : onMouseMove(x, rect)]_vars

\* C35: no drag is in progress while a panel is maximized, and no step
\* changes splitRatio in a Workspace that has a panel maximized.
C35_NoDragWhileMaximized ==
    [][/\ isDragging' => maximized' = NoPanel
       /\ (Mounted /\ Mounted' /\ maximized # NoPanel) => splitRatio' = splitRatio]_vars

\* C36: the theme is "light" or "dark" in every state, whatever string is
\* stored under the key at startup and however often it is toggled.
C36_ThemeIsLightOrDark == theme \in Themes

====
